---- MODULE Spec2Model ----
(***************************************************************************)
(* SentraIP MCP Adapter (src/mcp/sentraip_mcp_server.py).                  *)
(*                                                                         *)
(* A FastAPI service with three routes.  check_ip and get_stats call the   *)
(* helper sentraip_get, which issues one requests.get against the upstream *)
(* API and maps the outcome; root answers a fixed health document.         *)
(*                                                                         *)
(* Texts (HTTP bodies) are sequences of tokens, so that JSON decoding      *)
(* (Response.json) and encoding (the framework's JSON rendering) are real  *)
(* conversions: decoding drops insignificant whitespace and fails on text  *)
(* that is not a JSON object; encoding emits the compact form.             *)
(***************************************************************************)
EXTENDS Integers, Sequences, FiniteSets, TLC

\* Number of inbound requests in one behaviour.
MaxRequests == 2

Reqs == 1..MaxRequests

\* Python's None, and a query string without the ip parameter.
None == "None"
Absent == "<absent>"

\* Values of the environment variable SENTRAIP_BEARER_TOKEN (None: unset).
Tokens == {"tok-valid", "tok-expired", None}

\* Values of the ip query parameter: no validation beyond presence.
Ips == {"1.1.1.1", ""}

Routes == {"check_ip", "stats", "root"}

\* Status codes the upstream may answer with.
UpstreamStatuses == {200, 401, 404, 500, 503}

\* Bodies the upstream may answer with: a compact JSON object, the same
\* object pretty-printed, and a text that is not JSON.
BodyCompact == <<"{", "ip:1.1.1.1", ",", "risk:low", "}">>
BodyPretty == <<"{", "ws", "ip:1.1.1.1", ",", "ws", "risk:low", "ws", "}">>
BodyRaw == <<"db", "ws", "down">>
UpstreamBodies == {BodyCompact, BodyPretty, BodyRaw}

VARIABLES SENTRAIP_BEARER_TOKEN, SENTRAIP_API_BASE, pc, route, ip, calls,
          upstream, resp

vars == <<SENTRAIP_BEARER_TOKEN, SENTRAIP_API_BASE, pc, route, ip, calls,
          upstream, resp>>

config == <<SENTRAIP_BEARER_TOKEN, SENTRAIP_API_BASE>>

----------------------------------------------------------------------------
\* JSON conversions

StripWs(text) == SelectSeq(text, LAMBDA t : t # "ws")

\* The text, whitespace removed, is "{" [member ("," member)*] "}".
IsJsonObject(s) ==
    /\ Len(s) >= 2
    /\ s[1] = "{"
    /\ s[Len(s)] = "}"
    /\ \/ Len(s) = 2
       \/ /\ Len(s) % 2 = 1
          /\ \A i \in 2..(Len(s) - 1) :
                IF i % 2 = 0 THEN s[i] \notin {"{", "}", ","} ELSE s[i] = ","

\* Response.json(): the decoded document (the members in order), or a
\* decoding failure.
json(text) ==
    LET s == StripWs(text) IN
    IF IsJsonObject(s)
    THEN [ok |-> TRUE,
          value |-> [i \in 1..((Len(s) - 1) \div 2) |-> s[2 * i]]]
    ELSE [ok |-> FALSE, value |-> <<>>]

RECURSIVE JoinMembers(_)
JoinMembers(value) ==
    IF Len(value) = 0 THEN <<>>
    ELSE IF Len(value) = 1 THEN <<value[1]>>
    ELSE <<value[1], ",">> \o JoinMembers(Tail(value))

\* The framework's JSON rendering: compact separators, no whitespace.
render(value) == <<"{">> \o JoinMembers(value) \o <<"}">>

----------------------------------------------------------------------------
\* Values

\* A params argument: Python's None or a dict (a set of key/value pairs).
PyNone == [is_none |-> TRUE, items |-> {}]
PyDict(items) == [is_none |-> FALSE, items |-> items]

\* "params or {}": None and the empty dict both become the empty dict.
params_or_empty(params) ==
    IF params.is_none \/ params.items = {} THEN {} ELSE params.items

\* No outcome of the upstream call yet / no response sent yet.
NoOutcome == [kind |-> "none", status_code |-> 0, text |-> <<>>]
NoResp == [status_code |-> 0, kind |-> "none", content |-> <<>>]

\* The body of root(): {"status": "ok", "service": "SentraIP MCP Adapter"}.
HealthDoc == <<"status:ok", "service:SentraIP MCP Adapter">>

\* What the framework answers by itself.
ValidationDetail == <<"Field required: query.ip">>
InternalServerError == <<"Internal Server Error">>

----------------------------------------------------------------------------
\* Variant: the upstream-backed handlers declared async def, so that their
\* blocking requests.get runs on the event loop.
is_coroutine_async(rt) == rt \in {"check_ip", "stats"}

\* The handlers are declared with def, not async def: the framework runs
\* each call of them in a worker thread, not on the event loop.
is_coroutine(rt) == FALSE

\* The event loop cannot serve request r while another request's coroutine
\* handler sits in a blocking call on the loop.
LoopBlockedFor(r) ==
    \E q \in Reqs \ {r} :
        /\ pc[q] \in {"waiting", "blocked"}
        /\ is_coroutine(route[q])

\* Variant: the ip parameter declared optional (Query(None)).
ValidationFails_optional(a) == FALSE

\* Query(...): the ip parameter is required; a request without it is
\* rejected before the handler runs.
ValidationFails(a) == a = Absent

\* Variant: check_ip calls the helper without the params argument.
check_ip_args_no_params(a) == [path |-> "ip-check", params |-> PyNone]

\* check_ip's call of the helper: sentraip_get("ip-check", params={"ips": ip}).
check_ip_args(a) == [path |-> "ip-check", params |-> PyDict({<<"ips", a>>})]

\* get_stats' call of the helper: sentraip_get("stats").
get_stats_args == [path |-> "stats", params |-> PyNone]

\* Variant: a health check that reports a missing credential.
root_result_checks_token ==
    IF SENTRAIP_BEARER_TOKEN = None
    THEN [status_code |-> 503, kind |-> "json",
          content |-> render(<<"status:unconfigured">>)]
    ELSE [status_code |-> 200, kind |-> "json", content |-> render(HealthDoc)]

\* root(): a fixed JSONResponse, status 200.
root_result ==
    [status_code |-> 200, kind |-> "json", content |-> render(HealthDoc)]

\* Variant: the return at line 76 missing, so that control reaches the
\* second requests.get (line 81, timeout=10) after the first.
sentraip_get_requests_twice(path, params) ==
    << [method |-> "GET",
        url |-> <<SENTRAIP_API_BASE, path>>,
        Authorization |-> <<"Bearer", SENTRAIP_BEARER_TOKEN>>,
        params |-> params_or_empty(params),
        timeout |-> {}],
       [method |-> "GET",
        url |-> <<SENTRAIP_API_BASE, path>>,
        Authorization |-> <<"Bearer", SENTRAIP_BEARER_TOKEN>>,
        params |-> params_or_empty(params),
        timeout |-> {10}] >>

\* sentraip_get up to the blocking call: the requests.get calls it issues.
\* The only one is the call at line 73, which has no timeout argument.
sentraip_get_requests(path, params) ==
    << [method |-> "GET",
        url |-> <<SENTRAIP_API_BASE, path>>,
        Authorization |-> <<"Bearer", SENTRAIP_BEARER_TOKEN>>,
        params |-> params_or_empty(params),
        timeout |-> {}] >>

\* Variant: every upstream status other than 200 reported as a 502.
sentraip_get_result_502(r) ==
    IF r.status_code # 200
    THEN [kind |-> "HTTPException", status_code |-> 502,
          detail |-> r.text, value |-> <<>>]
    ELSE IF json(r.text).ok
    THEN [kind |-> "return", status_code |-> 200,
          detail |-> <<>>, value |-> json(r.text).value]
    ELSE [kind |-> "exception", status_code |-> 0,
          detail |-> <<>>, value |-> <<>>]

\* Variant: a circuit breaker. Once some request was answered with a 5xx,
\* the helper fails every later call with a 503.
sentraip_get_result_breaker(r) ==
    IF \E q \in Reqs : resp[q].status_code >= 500
    THEN [kind |-> "HTTPException", status_code |-> 503,
          detail |-> <<"circuit open">>, value |-> <<>>]
    ELSE IF r.status_code # 200
    THEN [kind |-> "HTTPException", status_code |-> r.status_code,
          detail |-> r.text, value |-> <<>>]
    ELSE IF json(r.text).ok
    THEN [kind |-> "return", status_code |-> 200,
          detail |-> <<>>, value |-> json(r.text).value]
    ELSE [kind |-> "exception", status_code |-> 0,
          detail |-> <<>>, value |-> <<>>]

\* sentraip_get after requests.get returned response r: any status other
\* than 200 is raised as an HTTPException carrying the upstream status and
\* the upstream text; a 200 is decoded, and a body that does not decode
\* raises out of the handler.
sentraip_get_result(r) ==
    IF r.status_code # 200
    THEN [kind |-> "HTTPException", status_code |-> r.status_code,
          detail |-> r.text, value |-> <<>>]
    ELSE IF json(r.text).ok
    THEN [kind |-> "return", status_code |-> 200,
          detail |-> <<>>, value |-> json(r.text).value]
    ELSE [kind |-> "exception", status_code |-> 0,
          detail |-> <<>>, value |-> <<>>]

\* requests.get raised (connection refused, DNS failure, timeout): nothing
\* in sentraip_get catches it.
sentraip_get_raised ==
    [kind |-> "exception", status_code |-> 0, detail |-> <<>>, value |-> <<>>]

\* The framework's answer to what the handler returned or raised: a
\* returned document is rendered with status 200, an HTTPException becomes
\* its status with {"detail": ...}, any other exception becomes a 500.
Respond(result) ==
    CASE result.kind = "return" ->
            [status_code |-> 200, kind |-> "json",
             content |-> render(result.value)]
      [] result.kind = "HTTPException" ->
            [status_code |-> result.status_code, kind |-> "detail",
             content |-> result.detail]
      [] OTHER ->
            [status_code |-> 500, kind |-> "plain",
             content |-> InternalServerError]

----------------------------------------------------------------------------
Init ==
    /\ SENTRAIP_BEARER_TOKEN \in Tokens
    /\ SENTRAIP_API_BASE = "https://api.sentraip.com/ws/v1"
    /\ pc = [r \in Reqs |-> "idle"]
    /\ route = [r \in Reqs |-> None]
    /\ ip = [r \in Reqs |-> Absent]
    /\ calls = [r \in Reqs |-> <<>>]
    /\ upstream = [r \in Reqs |-> NoOutcome]
    /\ resp = [r \in Reqs |-> NoResp]

\* An inbound request reaches the server.  Requests are numbered in the
\* order of their arrival.
Arrive(r, rt, a) ==
    /\ pc[r] = "idle"
    /\ IF r = 1 THEN TRUE ELSE pc[r - 1] # "idle"
    /\ rt = "check_ip" \/ a = Absent
    /\ pc' = [pc EXCEPT ![r] = "pending"]
    /\ route' = [route EXCEPT ![r] = rt]
    /\ ip' = [ip EXCEPT ![r] = a]
    /\ UNCHANGED <<config, calls, upstream, resp>>

\* The handler's call of sentraip_get, up to the blocking requests.get.
CallHelper(r, args) ==
    /\ calls' = [calls EXCEPT
                   ![r] = @ \o sentraip_get_requests(args.path, args.params)]
    /\ pc' = [pc EXCEPT ![r] = "waiting"]
    /\ UNCHANGED <<config, route, ip, upstream, resp>>

\* The request is answered without (further) work.
Answer(r, response) ==
    /\ resp' = [resp EXCEPT ![r] = response]
    /\ pc' = [pc EXCEPT ![r] = "done"]

\* GET /mcp/check_ip
check_ip(r) ==
    /\ pc[r] = "pending"
    /\ route[r] = "check_ip"
    /\ ~LoopBlockedFor(r)
    /\ IF ValidationFails(ip[r])
       THEN /\ Answer(r, [status_code |-> 422, kind |-> "detail",
                          content |-> ValidationDetail])
            /\ UNCHANGED <<config, route, ip, calls, upstream>>
       ELSE CallHelper(r, check_ip_args(ip[r]))

\* GET /mcp/stats
get_stats(r) ==
    /\ pc[r] = "pending"
    /\ route[r] = "stats"
    /\ ~LoopBlockedFor(r)
    /\ CallHelper(r, get_stats_args)

\* GET /
root(r) ==
    /\ pc[r] = "pending"
    /\ route[r] = "root"
    /\ ~LoopBlockedFor(r)
    /\ Answer(r, root_result)
    /\ UNCHANGED <<config, route, ip, calls, upstream>>

\* requests.get returns an HTTP response; sentraip_get maps it and the
\* framework answers the caller.
requests_get_returns(r, status, text) ==
    /\ pc[r] = "waiting"
    /\ ~LoopBlockedFor(r)
    /\ upstream' = [upstream EXCEPT
          ![r] = [kind |-> "response", status_code |-> status, text |-> text]]
    /\ Answer(r, Respond(sentraip_get_result(
                   [status_code |-> status, text |-> text])))
    /\ UNCHANGED <<config, route, ip, calls>>

\* requests.get raises a RequestException: the upstream is unreachable.
requests_get_raises(r) ==
    /\ pc[r] = "waiting"
    /\ ~LoopBlockedFor(r)
    /\ upstream' = [upstream EXCEPT
          ![r] = [kind |-> "unreachable", status_code |-> 0, text |-> <<>>]]
    /\ Answer(r, Respond(sentraip_get_raised))
    /\ UNCHANGED <<config, route, ip, calls>>

\* The upstream accepts the connection and never answers.  A call with a
\* timeout raises when it expires; a call without one never returns.
requests_get_hangs(r) ==
    /\ pc[r] = "waiting"
    /\ upstream' = [upstream EXCEPT
          ![r] = [kind |-> "silent", status_code |-> 0, text |-> <<>>]]
    /\ IF calls[r][Len(calls[r])].timeout = {}
       THEN /\ pc' = [pc EXCEPT ![r] = "blocked"]
            /\ UNCHANGED resp
       ELSE Answer(r, Respond(sentraip_get_raised))
    /\ UNCHANGED <<config, route, ip, calls>>

Next ==
    \/ \E r \in Reqs, rt \in Routes, a \in Ips \cup {Absent} : Arrive(r, rt, a)
    \/ \E r \in Reqs : check_ip(r)
    \/ \E r \in Reqs : get_stats(r)
    \/ \E r \in Reqs : root(r)
    \/ \E r \in Reqs, status \in UpstreamStatuses, text \in UpstreamBodies :
          requests_get_returns(r, status, text)
    \/ \E r \in Reqs : requests_get_raises(r)
    \/ \E r \in Reqs : requests_get_hangs(r)

Spec == Init /\ [][Next]_vars

\* The steps of one request's handler, and the outcomes of its upstream call.
Handle(r) == check_ip(r) \/ get_stats(r) \/ root(r)

Outcome(r) ==
    \/ \E status \in UpstreamStatuses, text \in UpstreamBodies :
          requests_get_returns(r, status, text)
    \/ requests_get_raises(r)
    \/ requests_get_hangs(r)

\* The server runs the handler of every request it has accepted, and every
\* upstream call meets one of its outcomes.
LiveSpec ==
    Spec /\ \A r \in Reqs : WF_vars(Handle(r)) /\ WF_vars(Outcome(r))

----------------------------------------------------------------------------
\* Properties

\* The handler of request r has run up to or past its upstream call.
Called(r) == pc[r] \in {"waiting", "blocked", "done"}

Done(r) == pc[r] = "done"

\* Request r went to an upstream-backed route and its handler ran.
Backed(r) == route[r] \in {"check_ip", "stats"} /\ ~ValidationFails(ip[r])

\* C1: a check_ip request with address a issues exactly one upstream GET, to
\* the path ip-check, with a among the query values; and when the upstream
\* answers 200 with a JSON body, the adapter answers 200 with the same JSON
\* document.
C1_CheckIpForwards ==
    \A r \in Reqs :
        (route[r] = "check_ip" /\ ip[r] \in Ips /\ Called(r)) =>
            /\ Len(calls[r]) = 1
            /\ calls[r][1].method = "GET"
            /\ calls[r][1].url[2] = "ip-check"
            /\ \E kv \in calls[r][1].params : kv[2] = ip[r]
            /\ (/\ Done(r)
                /\ upstream[r].kind = "response"
                /\ upstream[r].status_code = 200
                /\ json(upstream[r].text).ok) =>
                    /\ resp[r].status_code = 200
                    /\ resp[r].kind = "json"
                    /\ json(resp[r].content) = json(upstream[r].text)

\* A check_ip request answered 200 from a pretty-printed upstream body: the
\* response text differs from the upstream text, the document does not.
C1_Witness ==
    \E r \in Reqs :
        /\ route[r] = "check_ip" /\ ip[r] = "1.1.1.1" /\ Done(r)
        /\ upstream[r].status_code = 200
        /\ upstream[r].text = BodyPretty
        /\ resp[r].status_code = 200
        /\ resp[r].content = BodyCompact

\* C2: when the upstream answers with a status >= 500, the adapter answers
\* 502 and the response does not carry the upstream's body text.
C2_Upstream5xxIs502 ==
    \A r \in Reqs :
        (Done(r) /\ Backed(r) /\ upstream[r].kind = "response"
                 /\ upstream[r].status_code >= 500) =>
            /\ resp[r].status_code = 502
            /\ resp[r].content # upstream[r].text

\* C3: when the upstream call fails at the network level, the adapter
\* answers 503.
C3_UnreachableIs503 ==
    \A r \in Reqs :
        (Done(r) /\ Backed(r) /\ upstream[r].kind \in {"unreachable", "silent"})
            => resp[r].status_code = 503

C5_MissingIpRejected ==
    \A r \in Reqs :
        (route[r] = "check_ip" /\ ip[r] = Absent) =>
            /\ calls[r] = <<>>
            /\ pc[r] \in {"pending", "done"}
            /\ Done(r) =>
                  (resp[r].status_code >= 400 /\ resp[r].status_code <= 499)

C5_Witness ==
    \E r \in Reqs :
        /\ route[r] = "check_ip" /\ ip[r] = Absent /\ Done(r)
        /\ resp[r].status_code = 422
        /\ calls[r] = <<>>

\* C6: a request to GET / is answered 200 with the fixed health document and
\* never causes an upstream call, whatever the credential and whatever
\* happens to the upstream calls of other requests.
C6_HealthFixed ==
    \A r \in Reqs :
        route[r] = "root" =>
            /\ calls[r] = <<>>
            /\ pc[r] \in {"pending", "done"}
            /\ Done(r) =>
                  /\ resp[r].status_code = 200
                  /\ resp[r].content =
                        <<"{", "status:ok", ",",
                          "service:SentraIP MCP Adapter", "}">>

\* The health check answered with no credential configured, while another
\* request's upstream call failed or hangs.
C6_Witness ==
    \E r, q \in Reqs :
        /\ route[r] = "root" /\ Done(r) /\ resp[r].status_code = 200
        /\ SENTRAIP_BEARER_TOKEN = None
        /\ upstream[q].kind \in {"unreachable", "silent"}

\* C7: no inbound request ever has more than one upstream GET attempt,
\* whatever the outcome of the attempt.
C7_AtMostOneAttempt ==
    \A r \in Reqs : Len(calls[r]) <= 1

\* Both requests finished after a failed attempt (an error status and a
\* network failure), each with its single attempt.
C7_Witness ==
    \E r, q \in Reqs :
        /\ Done(r) /\ upstream[r].kind = "unreachable" /\ Len(calls[r]) = 1
        /\ Done(q) /\ upstream[q].kind = "response"
        /\ upstream[q].status_code = 503 /\ Len(calls[q]) = 1

\* C8: every request the server has accepted is eventually answered, even
\* when the upstream never answers (every upstream GET has a timeout).
C8_EveryRequestAnswered ==
    \A r \in Reqs : (pc[r] = "pending") ~> (pc[r] = "done")

SameInputs(r, q) ==
    /\ route[r] = route[q]
    /\ ip[r] = ip[q]

C10_Independent ==
    \A r, q \in Reqs :
        /\ (Called(r) /\ Called(q) /\ SameInputs(r, q)) => calls[r] = calls[q]
        /\ (Done(r) /\ Done(q) /\ SameInputs(r, q)
                     /\ upstream[r] = upstream[q]) => resp[r] = resp[q]

C10_Stateless == []C10_Independent /\ [][config' = config]_vars

\* The same request made twice, both times answered with the upstream's 500.
C10_Witness ==
    \E r, q \in Reqs :
        /\ r # q /\ Done(r) /\ Done(q) /\ SameInputs(r, q)
        /\ route[r] = "stats"
        /\ upstream[r] = upstream[q]
        /\ upstream[r].status_code = 500
        /\ resp[q].status_code = 500

====
